---- MODULE Spec2Model ----
(***************************************************************************)
(* Room relay of the collaborative drawing server (server.js) and the      *)
(* client's socket handlers (public/sketch.js).                            *)
(*                                                                         *)
(* The relay is a set of socket.io event handlers.  Each handler runs to   *)
(* completion, so every handler is one action.  The socket.io room adapter *)
(* (rooms : room -> sids, sids : sid -> rooms) is the relay's only state.  *)
(* Room names and session ids are both strings of one name space: a join   *)
(* may name a room whose id is the id of a session.                        *)
(***************************************************************************)
EXTENDS Naturals, Integers, Sequences, FiniteSets, TLC

\* ------------------------------------------------------------------------
\* Bounds and input sets
\* ------------------------------------------------------------------------

\* number of connections, joins and disconnects in a run of SpecCount
MaxSteps == 6
\* number of clicks and painted frames in a run of SpecClient
MaxUiEvents == 4
\* number of messages the clients send in a run of SpecNet
MaxSends == 4
\* number of painted frames and clicks in a run of SpecRoom
MaxRoomEvents == 3
\* number of frames in a run of SpecSketch
MaxFrames == 4

Sessions == {"s1", "s2", "s3"}
RealRooms == {"R1", "R2"}
\* the adapter's rooms: the real rooms and every session's own room
RoomNames == RealRooms \cup Sessions
\* the non-empty strings clients put in join.room: the real rooms and the
\* id of session s1 (learnt from user:joined, or s1's own)
JoinRooms == RealRooms \cup {"s1"}
Usernames == {"alice"}
\* a field that is absent from the payload object (undefined)
Missing == "<undefined>"
\* payloads of sound:stroke / sound:state (opaque to the relay)
Payloads == {"p1", "p2"}
NoData == "<none>"

\* join payloads: data itself may be undefined or null (present = FALSE)
ValidJoins == [present : {TRUE}, room : JoinRooms, username : Usernames]
MalformedJoins ==
    [present : {TRUE}, room : {"", Missing}, username : Usernames \cup {""}]
    \cup [present : {TRUE}, room : {"R1"}, username : {"", Missing}]
    \cup [present : {FALSE}, room : {Missing}, username : {Missing}]
JoinPayloads == ValidJoins \cup MalformedJoins
\* the joins of the client of sketch.js: its room code and username
ClientJoins == [present : {TRUE}, room : RealRooms, username : Usernames]
\* the sessions and the joins of SpecNet: a sender and a recipient, a real
\* room and the room named by the id of session s1
NetSessions == {"s1", "s2"}
NetJoins == [present : {TRUE}, room : {"R1", "s1"}, username : Usernames]
NetPayloads == {"p1"}

NoJoin == [present |-> FALSE, room |-> Missing, username |-> Missing]

VARIABLES
    status,       \* session -> "idle" (not yet connected) | "open" | "closed"
    rooms,        \* adapter.rooms: room name -> set of session ids
    sids,         \* adapter.sids: session id -> set of room names (socket.rooms)
    joinedVia,    \* history: rooms an open session passed in its own valid joins
    last,         \* history: the inbound message the last handler handled
    out,          \* session -> sequence of events the last handler emitted to it
    crashed,      \* an uncaught exception has terminated the process
    addressed,    \* history: the rooms the last handler emitted to or counted
    before,       \* history: adapter.rooms before the last handler (SpecHist)
    prevJoin,     \* history: the valid join handled just before the last message
    inbox,        \* session -> events in flight to the client
    onlineCount,  \* client: text of #online-count (0 = never set)
    steps,        \* number of the events counted by the specification's bound
    uplink,       \* session -> messages the client has emitted, not yet handled
    canvas,       \* client: the strokes painted on the canvas since it was cleared
    clearCooldown,    \* client: let clearCooldown of the Clear button
    clearBtnDisabled, \* client: clearBtn.disabled
    timers,       \* client: delays of the pending setTimeout callbacks
    click,        \* history: the last event of a client's user interface
    origin,       \* history: sender, number and event of every event of inbox
    due,          \* history: the fan-out copies owed to a session since it connected
    recvLog,      \* history: the fan-out copies a session's listeners have handled
    frameCount,   \* sketch: p5's frameCount
    mouseIsPressed,   \* sketch: p5's mouseIsPressed
    mouseX,       \* sketch: p5's mouseX
    mouseY,       \* sketch: p5's mouseY
    prevMouseX,   \* sketch: let prevMouseX
    prevMouseY,   \* sketch: let prevMouseY
    lastEmitX,    \* sketch: let lastEmitX
    lastEmitY,    \* sketch: let lastEmitY
    pressAt,      \* history: the mouse position of the last mousePressed()
    pressStrokes, \* history: the strokes emitted since the last mousePressed()
    frameEmitted, \* history: the last frame emitted a stroke
    micEnabled,   \* sketch: let micEnabled
    micStatus,    \* sketch: micStatus.textContent
    micBtnDisabled,   \* sketch: micBtn.disabled
    micPc,        \* sketch: where the mic button's async click listener stands
    micAccess     \* sketch: the state of the microphone request of mic.start()

vars == <<status, rooms, sids, joinedVia, last, out, crashed, addressed, before, prevJoin,
          inbox, onlineCount, steps, uplink, canvas, clearCooldown, clearBtnDisabled,
          timers, click, origin, due, recvLog, frameCount, mouseIsPressed, mouseX,
          mouseY, prevMouseX, prevMouseY, lastEmitX, lastEmitY, pressAt, pressStrokes,
          frameEmitted, micEnabled, micStatus, micBtnDisabled, micPc, micAccess>>
mouseVars == <<mouseIsPressed, mouseX, mouseY>>
drawVars == <<frameCount, prevMouseX, prevMouseY, lastEmitX, lastEmitY, pressAt,
              pressStrokes, frameEmitted>>
micVars == <<micEnabled, micStatus, micBtnDisabled, micPc, micAccess>>
sketchVars == <<mouseVars, drawVars, micVars>>
uiVars == <<clearCooldown, clearBtnDisabled, timers, click, sketchVars>>
ghostVars == <<origin, due, recvLog>>
relayVars == <<status, rooms, sids, joinedVia, last, out, crashed, addressed>>
histVars == <<before, prevJoin>>

\* ------------------------------------------------------------------------
\* socket.io primitives used by server.js
\* ------------------------------------------------------------------------

NoOut == [s \in Sessions |-> <<>>]

\* JavaScript falsiness of a join field: undefined or the empty string
Falsy(v) == v \in {"", Missing}

\* socket.rooms: the adapter's room set of the socket (empty once removed)
SocketRooms(sd, s) == sd[s]

\* a join that leaves the rooms joined before
AddAllSidsSwitch(sd, s, room) == [sd EXCEPT ![s] = {s, room}]

\* socket.join(room): adapter.addAll
AddAllRooms(rm, s, room) == [rm EXCEPT ![room] = @ \cup {s}]
AddAllSids(sd, s, room) == [sd EXCEPT ![s] = @ \cup {room}]

\* a leaveAll that forgets the rooms entered by join
DelAllRoomsOwnOnly(rm, s) == [rm EXCEPT ![s] = @ \ {s}]

\* socket leaveAll on close: adapter.delAll
DelAllRooms(rm, s) == [r \in RoomNames |-> rm[r] \ {s}]
DelAllSids(sd, s) == [sd EXCEPT ![s] = {}]

\* a size that counts the joiner on top of the room's sockets
RoomSizeCountsJoiner(rm, room) == Cardinality(rm[room]) + 1

\* io.sockets.adapter.rooms.get(room)?.size || 0
RoomSize(rm, room) == Cardinality(rm[room])

\* recipients of socket.to(room).emit: the room's sockets except those of
\* the sender's own room (the broadcast operator excepts room socket.id)
SocketTo(rm, s, room) == rm[room] \ rm[s]

\* recipients of io.to(room).emit
IoTo(rm, room) == rm[room]

\* recipients of socket.emit
SocketEmit(s) == {s}

\* one emit: append msg to the outbound sequence of every recipient
Emit(o, recipients, msg) ==
    [t \in Sessions |-> IF t \in recipients THEN Append(o[t], msg) ELSE o[t]]

\* rooms.forEach(room => socket.to(room).emit(ev, data)): one emit per room
Copies(n, msg) == [i \in 1..n |-> msg]

\* a fan-out that echoes the event to its sender
ForEachSocketEcho(rm, s, rs, msg) ==
    [t \in Sessions |->
        IF t = s THEN <<msg>>
        ELSE Copies(Cardinality({r \in rs : t \in rm[r] \ rm[s]}), msg)]

ForEachSocketTo(rm, s, rs, msg) ==
    [t \in Sessions |->
        Copies(Cardinality({r \in rs : t \in SocketTo(rm, s, r)}), msg)]

\* Array.from(socket.rooms).filter(r => r !== socket.id)
FilterRooms(sd, s) == {r \in SocketRooms(sd, s) : r # s}

UserJoined(username, id) == [ev |-> "user:joined", username |-> username, id |-> id]
RoomInfo(room, n) == [ev |-> "room:info", room |-> room, userCount |-> n]
RoomCount(n) == [ev |-> "room:count", count |-> n]
Relayed(ev, data) == [ev |-> ev, data |-> data]

NoPrevJoin == [valid |-> FALSE, from |-> "s1", room |-> "R1", size |-> 0, member |-> FALSE]

Handled(kind, s, j, d) == [kind |-> kind, from |-> s, join |-> j, data |-> d]

UiEvent(kind, s, confirmed) == [kind |-> kind, s |-> s, confirmed |-> confirmed]
NoClick == UiEvent("none", "s1", FALSE)

\* ------------------------------------------------------------------------
\* Initial state
\* ------------------------------------------------------------------------

Point(x, y) == [x |-> x, y |-> y]

\* the sketch's globals after setup(): no frame drawn, the mouse at the
\* origin and released, prevMouseX and prevMouseY at the centre of the
\* window, the microphone off
InitSketch ==
    /\ frameCount = 0
    /\ mouseIsPressed = FALSE
    /\ mouseX = 0
    /\ mouseY = 0
    /\ prevMouseX = 1
    /\ prevMouseY = 1
    /\ lastEmitX = 0
    /\ lastEmitY = 0
    /\ pressAt = Point(0, 0)
    /\ pressStrokes = <<>>
    /\ frameEmitted = FALSE
    /\ micEnabled = FALSE
    /\ micStatus = "OFF"
    /\ micBtnDisabled = FALSE
    /\ micPc = "idle"
    /\ micAccess = "none"

Init ==
    /\ status = [s \in Sessions |-> "idle"]
    /\ rooms = [r \in RoomNames |-> {}]
    /\ sids = [s \in Sessions |-> {}]
    /\ joinedVia = [s \in Sessions |-> {}]
    /\ last = Handled("init", "s1", NoJoin, NoData)
    /\ out = NoOut
    /\ crashed = FALSE
    /\ addressed = {}
    /\ before = [r \in RoomNames |-> {}]
    /\ prevJoin = NoPrevJoin
    /\ inbox = NoOut
    /\ onlineCount = [s \in Sessions |-> 0]
    /\ steps = 0
    /\ uplink = NoOut
    /\ canvas = [s \in Sessions |-> {}]
    /\ clearCooldown = [s \in Sessions |-> FALSE]
    /\ clearBtnDisabled = [s \in Sessions |-> FALSE]
    /\ timers = [s \in Sessions |-> {}]
    /\ click = NoClick
    /\ origin = NoOut
    /\ due = NoOut
    /\ recvLog = NoOut
    /\ InitSketch

\* ------------------------------------------------------------------------
\* Relay handlers
\* ------------------------------------------------------------------------

\* io.on('connection'): the socket is created and joins the room of its id
OnConnection(s) ==
    /\ ~crashed
    /\ status[s] = "idle"
    /\ status' = [status EXCEPT ![s] = "open"]
    /\ rooms' = AddAllRooms(rooms, s, s)
    /\ sids' = AddAllSids(sids, s, s)
    /\ last' = Handled("connection", s, NoJoin, NoData)
    /\ out' = NoOut
    /\ addressed' = {}
    /\ UNCHANGED <<joinedVia, crashed>>


\* line 18: destructuring undefined or null throws a TypeError
Destructurable(data) == data.present

\* a guard that forgets the username
JoinIgnoredRoomOnly(data) == Falsy(data.room)

\* line 19: if (!room || !username) return;
JoinIgnored(data) == Falsy(data.room) \/ Falsy(data.username)

\* lines 24-27: the three emits of a join, in the order of the code
JoinEmits(rm, s, room, username) ==
    LET roomSize == RoomSize(rm, room)
        o1 == Emit(NoOut, SocketTo(rm, s, room), UserJoined(username, s))
        o2 == Emit(o1, SocketEmit(s), RoomInfo(room, roomSize))
    IN  Emit(o2, IoTo(rm, room), RoomCount(roomSize))

\* the process dies of an uncaught exception: every connection is dropped
\* and the adapter is gone
Crash(s, kind, data) ==
    /\ crashed' = TRUE
    /\ status' = [t \in Sessions |-> IF status[t] = "open" THEN "closed" ELSE status[t]]
    /\ rooms' = [r \in RoomNames |-> {}]
    /\ sids' = [t \in Sessions |-> {}]
    /\ joinedVia' = [t \in Sessions |-> {}]
    /\ last' = Handled(kind, s, data, NoData)
    /\ out' = NoOut
    /\ addressed' = {}

\* socket.on('join', (data) => ...)
OnJoin(s, data) ==
    /\ ~crashed
    /\ status[s] = "open"
    /\ IF ~Destructurable(data) THEN Crash(s, "join", data)
       ELSE IF JoinIgnored(data)
       THEN /\ last' = Handled("join", s, data, NoData)
            /\ out' = NoOut
            /\ addressed' = {}
            /\ UNCHANGED <<status, rooms, sids, joinedVia, crashed>>
       ELSE /\ rooms' = AddAllRooms(rooms, s, data.room)
            /\ sids' = AddAllSids(sids, s, data.room)
            /\ joinedVia' = [joinedVia EXCEPT ![s] = @ \cup {data.room}]
            /\ last' = Handled("join", s, data, NoData)
            /\ out' = JoinEmits(rooms', s, data.room, data.username)
            /\ addressed' = {data.room}
            /\ UNCHANGED <<status, crashed>>

\* a relay that stamps the sender's id on the payload
RelayEmitsStamped(rm, sd, s, ev, data) ==
    ForEachSocketTo(rm, s, FilterRooms(sd, s), [ev |-> ev, data |-> data, from |-> s])

\* socket.on('sound:stroke' | 'sound:state', (data) => ...)
RelayEmits(rm, sd, s, ev, data) ==
    ForEachSocketTo(rm, s, FilterRooms(sd, s), Relayed(ev, data))

OnRelay(s, ev, data) ==
    /\ ~crashed
    /\ status[s] = "open"
    /\ last' = Handled(ev, s, NoJoin, data)
    /\ out' = RelayEmits(rooms, sids, s, ev, data)
    /\ addressed' = FilterRooms(sids, s)
    /\ UNCHANGED <<status, rooms, sids, joinedVia, crashed>>

OnSoundStroke(s, data) == OnRelay(s, "sound:stroke", data)
OnSoundState(s, data) == OnRelay(s, "sound:state", data)

\* a relay that forwards the clear under the name of the spec
ClearEmitsRenamed(rm, sd, s) ==
    ForEachSocketTo(rm, s, FilterRooms(sd, s), [ev |-> "clear"])

\* socket.on('canvas:clear', () => ...): emitted without a payload
ClearEmits(rm, sd, s) ==
    ForEachSocketTo(rm, s, FilterRooms(sd, s), [ev |-> "canvas:clear"])

OnCanvasClear(s) ==
    /\ ~crashed
    /\ status[s] = "open"
    /\ last' = Handled("canvas:clear", s, NoJoin, NoData)
    /\ out' = ClearEmits(rooms, sids, s)
    /\ addressed' = FilterRooms(sids, s)
    /\ UNCHANGED <<status, rooms, sids, joinedVia, crashed>>

\* the rooms the 'disconnect' listener reads from socket.rooms: socket.io
\* has already run leaveAll when it emits 'disconnect' (sdAfter), the rooms
\* before the close are sdBefore
DisconnectRooms(sdBefore, sdAfter, s) == FilterRooms(sdAfter, s)

\* a sequence of the elements of a finite set (the order is not observable:
\* it only orders room:count events of different rooms)
RECURSIVE SetToSeq(_)
SetToSeq(S) ==
    IF S = {} THEN <<>>
    ELSE LET x == CHOOSE y \in S : TRUE IN <<x>> \o SetToSeq(S \ {x})

\* lines 54-57: for each room, room:count with the room's size to the room
RECURSIVE DisconnectEmits(_, _, _)
DisconnectEmits(rm, rs, o) ==
    IF rs = <<>> THEN o
    ELSE DisconnectEmits(rm, Tail(rs),
             Emit(o, IoTo(rm, Head(rs)), RoomCount(RoomSize(rm, Head(rs)))))

\* a close that leaves the socket connected
OnDisconnectStaysOpen(s) ==
    /\ ~crashed
    /\ status[s] = "open"
    /\ rooms' = DelAllRooms(rooms, s)
    /\ sids' = DelAllSids(sids, s)
    /\ last' = Handled("disconnect", s, NoJoin, NoData)
    /\ joinedVia' = [joinedVia EXCEPT ![s] = {}]
    /\ out' = NoOut
    /\ addressed' = {}
    /\ UNCHANGED <<status, crashed>>

\* the transport closes the socket: leaveAll, then the 'disconnect' listener
OnDisconnect(s) ==
    /\ ~crashed
    /\ status[s] = "open"
    /\ status' = [status EXCEPT ![s] = "closed"]
    /\ rooms' = DelAllRooms(rooms, s)
    /\ sids' = DelAllSids(sids, s)
    /\ last' = Handled("disconnect", s, NoJoin, NoData)
    /\ joinedVia' = [joinedVia EXCEPT ![s] = {}]
    /\ out' = DisconnectEmits(rooms', SetToSeq(DisconnectRooms(sids, sids', s)), NoOut)
    /\ addressed' = DisconnectRooms(sids, sids', s)
    /\ UNCHANGED crashed

\* ------------------------------------------------------------------------
\* The relay alone: every interleaving of inbound messages, each handled to
\* completion
\* ------------------------------------------------------------------------

netVars == <<inbox, onlineCount, steps, before, prevJoin, uplink, canvas,
            clearCooldown, clearBtnDisabled, timers, click, origin, due, recvLog,
            sketchVars>>

Next ==
    \/ \E s \in Sessions : OnConnection(s) /\ UNCHANGED netVars
    \/ \E s \in Sessions, data \in JoinPayloads : OnJoin(s, data) /\ UNCHANGED netVars
    \/ \E s \in Sessions, data \in Payloads : OnSoundStroke(s, data) /\ UNCHANGED netVars
    \/ \E s \in Sessions, data \in Payloads : OnSoundState(s, data) /\ UNCHANGED netVars
    \/ \E s \in Sessions : OnCanvasClear(s) /\ UNCHANGED netVars
    \/ \E s \in Sessions : OnDisconnect(s) /\ UNCHANGED netVars

Spec == Init /\ [][Next]_vars

\* ------------------------------------------------------------------------
\* Relay, transport and clients (public/sketch.js): joins and disconnects
\* ------------------------------------------------------------------------

\* updateOnlineCount(count), called by the room:info and room:count listeners
UpdateOnlineCount(shown, msg) ==
    IF msg.ev = "room:info" THEN msg.userCount
    ELSE IF msg.ev = "room:count" THEN msg.count
    ELSE shown

\* a transport that hands the newest events to the client first
TransmitNewestFirst ==
    inbox' = [t \in Sessions |->
                 IF status'[t] = "open" THEN out'[t] \o inbox[t] ELSE <<>>]

\* emitted events travel to the open sockets, in order, per connection
Transmit ==
    inbox' = [t \in Sessions |->
                 IF status'[t] = "open" THEN inbox[t] \o out'[t] ELSE <<>>]

\* the canvas after the sound:stroke listener (drawBrush) or the canvas:clear
\* listener (background) has run
CanvasAfter(c, msg) ==
    IF msg.ev = "sound:stroke" THEN c \cup {msg.data}
    ELSE IF msg.ev = "canvas:clear" THEN {}
    ELSE c

\* the client's socket.on(...) listener for the next event in flight
ClientReceive(s) ==
    /\ status[s] = "open"
    /\ inbox[s] # <<>>
    /\ onlineCount' = [onlineCount EXCEPT ![s] = UpdateOnlineCount(@, Head(inbox[s]))]
    /\ canvas' = [canvas EXCEPT ![s] = CanvasAfter(@, Head(inbox[s]))]
    /\ inbox' = [inbox EXCEPT ![s] = Tail(@)]
    /\ UNCHANGED <<relayVars, histVars, steps, uplink, uiVars>>

\* the transport's part of a handler step
Sent ==
    /\ Transmit
    /\ steps' = steps + 1
    /\ UNCHANGED <<onlineCount, histVars, uplink, canvas, uiVars, ghostVars>>

NextCount ==
    \/ \E s \in Sessions : steps < MaxSteps /\ OnConnection(s) /\ Sent
    \/ \E s \in Sessions, data \in ClientJoins :
           steps < MaxSteps /\ OnJoin(s, data) /\ Sent
    \/ \E s \in Sessions : steps < MaxSteps /\ OnDisconnect(s) /\ Sent
    \/ \E s \in Sessions : ClientReceive(s) /\ UNCHANGED ghostVars

SpecCount == Init /\ [][NextCount]_vars


\* ------------------------------------------------------------------------
\* The relay with the history of its last two messages
\* ------------------------------------------------------------------------

\* history: the registry before the handler, and the valid join (its session,
\* its room, the room's size and the session's membership before it) when
\* the message handled before was one
Track ==
    /\ before' = rooms
    /\ prevJoin' =
           IF last.kind = "join" /\ Destructurable(last.join) /\ ~JoinIgnored(last.join)
           THEN [valid |-> TRUE, from |-> last.from, room |-> last.join.room,
                 size |-> Cardinality(before[last.join.room]),
                 member |-> last.from \in before[last.join.room]]
           ELSE NoPrevJoin
    /\ UNCHANGED <<inbox, onlineCount, steps, uplink, canvas, uiVars, ghostVars>>

NextHist ==
    \/ \E s \in Sessions : OnConnection(s) /\ Track
    \/ \E s \in Sessions, data \in ValidJoins : OnJoin(s, data) /\ Track
    \/ \E s \in Sessions, data \in Payloads : OnSoundStroke(s, data) /\ Track
    \/ \E s \in Sessions, data \in Payloads : OnSoundState(s, data) /\ Track
    \/ \E s \in Sessions : OnCanvasClear(s) /\ Track
    \/ \E s \in Sessions : OnDisconnect(s) /\ Track

SpecHist == Init /\ [][NextHist]_vars

\* ------------------------------------------------------------------------
\* The client's user interface (public/sketch.js): painting and the Clear
\* button
\* ------------------------------------------------------------------------

\* setTimeout(..., 500)
ClearCooldownMs == 500

\* a message of the client: event, payload and the number of the event that
\* sent it
ClientMsg(ev, j, d, n) == [ev |-> ev, join |-> j, data |-> d, n |-> n]

\* the client's socket.emit(ev, data)
ClientSocketEmit(up, s, msg) == [up EXCEPT ![s] = Append(@, msg)]

\* a click handler without the cooldown guard
ClickNeverIgnored(cooldown) == FALSE

\* line 427: if (clearCooldown) return;
ClickIgnored(cooldown) == cooldown

\* clearBtn's click listener; confirmed is the answer to confirm(...)
ClickClear(s, confirmed) ==
    /\ steps < MaxUiEvents
    /\ steps' = steps + 1
    /\ click' = UiEvent("click", s, confirmed)
    /\ IF ClickIgnored(clearCooldown[s]) \/ ~confirmed
       THEN UNCHANGED <<canvas, uplink, clearCooldown, clearBtnDisabled, timers>>
       ELSE /\ canvas' = [canvas EXCEPT ![s] = {}]
            /\ uplink' = ClientSocketEmit(uplink, s,
                             ClientMsg("canvas:clear", NoJoin, NoData, steps + 1))
            /\ clearCooldown' = [clearCooldown EXCEPT ![s] = TRUE]
            /\ clearBtnDisabled' = [clearBtnDisabled EXCEPT ![s] = TRUE]
            /\ timers' = [timers EXCEPT ![s] = @ \cup {ClearCooldownMs}]
    /\ UNCHANGED <<relayVars, histVars, inbox, onlineCount, ghostVars, sketchVars>>

\* the callback of the Clear button's setTimeout
ClearTimerFires(s) ==
    /\ ClearCooldownMs \in timers[s]
    /\ timers' = [timers EXCEPT ![s] = @ \ {ClearCooldownMs}]
    /\ clearCooldown' = [clearCooldown EXCEPT ![s] = FALSE]
    /\ clearBtnDisabled' = [clearBtnDisabled EXCEPT ![s] = FALSE]
    /\ click' = UiEvent("timeout", s, FALSE)
    /\ UNCHANGED <<relayVars, histVars, inbox, onlineCount, steps, uplink, canvas,
                   ghostVars, sketchVars>>

\* a frame of draw() with the mouse pressed: the brush paints the canvas and
\* every even frame emits the stroke
Paint(s, data, even) ==
    /\ steps < MaxUiEvents
    /\ steps' = steps + 1
    /\ click' = UiEvent("paint", s, FALSE)
    /\ canvas' = [canvas EXCEPT ![s] = @ \cup {data}]
    /\ uplink' = IF even
                 THEN ClientSocketEmit(uplink, s,
                          ClientMsg("sound:stroke", NoJoin, data, steps + 1))
                 ELSE uplink
    /\ UNCHANGED <<relayVars, histVars, inbox, onlineCount, clearCooldown,
                   clearBtnDisabled, timers, ghostVars, sketchVars>>

NextClient ==
    \/ \E s \in Sessions, confirmed \in BOOLEAN : ClickClear(s, confirmed)
    \/ \E s \in Sessions : ClearTimerFires(s)
    \/ \E s \in Sessions, data \in Payloads, even \in BOOLEAN : Paint(s, data, even)

SpecClient == Init /\ [][NextClient]_vars

\* ------------------------------------------------------------------------
\* Clients, transport and relay: every client's messages reach the relay in
\* the order sent, every socket's events reach its client in the order
\* emitted
\* ------------------------------------------------------------------------

\* the events the relay fans out to the sender's rooms
FanoutEvents == {"sound:stroke", "sound:state", "canvas:clear"}

Tag(s, n, ev) == [from |-> s, n |-> n, ev |-> ev]
IsFanout(tag) == tag.ev \in FanoutEvents

\* history of Transmit: the message of session s, sent by event n, that
\* made the handler emit each event
TransmitOrigin(s, n) ==
    origin' = [t \in Sessions |->
                  IF status'[t] = "open"
                  THEN origin[t] \o [i \in 1..Len(out'[t]) |-> Tag(s, n, out'[t][i].ev)]
                  ELSE <<>>]

\* a client emits an event while its socket is connected
NetSend(s, ev, j, d) ==
    /\ steps < MaxSends
    /\ ~crashed
    /\ status[s] = "open"
    /\ uplink' = ClientSocketEmit(uplink, s, ClientMsg(ev, j, d, steps + 1))
    /\ steps' = steps + 1
    /\ UNCHANGED <<relayVars, histVars, inbox, onlineCount, canvas, uiVars, ghostVars>>

NetConnect(s) ==
    /\ OnConnection(s)
    /\ Transmit
    /\ UNCHANGED <<steps, onlineCount, histVars, uplink, canvas, uiVars, ghostVars>>

\* the transport's part of the handling of the oldest message of session s
Dequeued(s) ==
    /\ uplink' = [uplink EXCEPT ![s] = Tail(@)]
    /\ Transmit
    /\ TransmitOrigin(s, Head(uplink[s]).n)
    /\ UNCHANGED <<recvLog, onlineCount, canvas, steps, uiVars, histVars>>

\* history: one copy of the message is owed to every other member of every
\* room the relay fans the message out to
Owed(s, m) ==
    [t \in Sessions |->
        IF t # s /\ status[t] = "open"
        THEN due[t] \o Copies(Cardinality({r \in FilterRooms(sids, s) : t \in rooms[r]}),
                              Tag(s, m.n, m.ev))
        ELSE due[t]]

HandleJoin(s) ==
    /\ uplink[s] # <<>>
    /\ Head(uplink[s]).ev = "join"
    /\ OnJoin(s, Head(uplink[s]).join)
    /\ Dequeued(s)
    /\ UNCHANGED due

HandleStroke(s) ==
    /\ uplink[s] # <<>>
    /\ Head(uplink[s]).ev = "sound:stroke"
    /\ OnSoundStroke(s, Head(uplink[s]).data)
    /\ Dequeued(s)
    /\ due' = Owed(s, Head(uplink[s]))

HandleState(s) ==
    /\ uplink[s] # <<>>
    /\ Head(uplink[s]).ev = "sound:state"
    /\ OnSoundState(s, Head(uplink[s]).data)
    /\ Dequeued(s)
    /\ due' = Owed(s, Head(uplink[s]))

HandleClear(s) ==
    /\ uplink[s] # <<>>
    /\ Head(uplink[s]).ev = "canvas:clear"
    /\ OnCanvasClear(s)
    /\ Dequeued(s)
    /\ due' = Owed(s, Head(uplink[s]))

\* the connection of s closes: what s sent and what was in flight to s is lost
NetDisconnect(s) ==
    /\ OnDisconnect(s)
    /\ Transmit
    /\ TransmitOrigin(s, steps)
    /\ uplink' = [uplink EXCEPT ![s] = <<>>]
    /\ due' = [due EXCEPT ![s] = <<>>]
    /\ recvLog' = [recvLog EXCEPT ![s] = <<>>]
    /\ UNCHANGED <<steps, onlineCount, canvas, uiVars, histVars>>

NetReceive(s) ==
    /\ ClientReceive(s)
    /\ origin' = [origin EXCEPT ![s] = Tail(@)]
    /\ recvLog' = [recvLog EXCEPT ![s] =
                      IF IsFanout(Head(origin[s])) THEN Append(@, Head(origin[s])) ELSE @]
    /\ UNCHANGED due

NextNet ==
    \/ \E s \in NetSessions : NetConnect(s)
    \/ \E s \in NetSessions, data \in NetJoins : NetSend(s, "join", data, NoData)
    \/ \E s \in NetSessions, data \in NetPayloads : NetSend(s, "sound:stroke", NoJoin, data)
    \/ \E s \in NetSessions, data \in NetPayloads : NetSend(s, "sound:state", NoJoin, data)
    \/ \E s \in NetSessions : NetSend(s, "canvas:clear", NoJoin, NoData)
    \/ \E s \in NetSessions : HandleJoin(s)
    \/ \E s \in NetSessions : HandleStroke(s)
    \/ \E s \in NetSessions : HandleState(s)
    \/ \E s \in NetSessions : HandleClear(s)
    \/ \E s \in NetSessions : NetDisconnect(s)
    \/ \E s \in NetSessions : NetReceive(s)

SpecNet == Init /\ [][NextNet]_vars

\* ------------------------------------------------------------------------
\* One room: three clients of sketch.js that have joined the room of their
\* common room code and stay connected, painting and clearing concurrently
\* ------------------------------------------------------------------------

RoomCode == "R1"
RoomJoin == [present |-> TRUE, room |-> RoomCode, username |-> "alice"]
RoomRegistry == [r \in RoomNames |->
                    IF r = RoomCode THEN Sessions
                    ELSE IF r \in Sessions THEN {r} ELSE {}]

\* the state after s1, s2 and s3 have connected, their 'connect' listeners
\* have emitted join {room: roomCode, username}, the relay has handled the
\* three joins and every event has reached its client
InitRoom ==
    /\ status = [s \in Sessions |-> "open"]
    /\ rooms = RoomRegistry
    /\ sids = [s \in Sessions |-> {s, RoomCode}]
    /\ joinedVia = [s \in Sessions |-> {RoomCode}]
    /\ last = Handled("join", "s3", RoomJoin, NoData)
    /\ out = JoinEmits(RoomRegistry, "s3", RoomCode, "alice")
    /\ crashed = FALSE
    /\ addressed = {RoomCode}
    /\ before = [r \in RoomNames |-> {}]
    /\ prevJoin = NoPrevJoin
    /\ inbox = NoOut
    /\ onlineCount = [s \in Sessions |-> Cardinality(Sessions)]
    /\ steps = 0
    /\ uplink = NoOut
    /\ canvas = [s \in Sessions |-> {}]
    /\ clearCooldown = [s \in Sessions |-> FALSE]
    /\ clearBtnDisabled = [s \in Sessions |-> FALSE]
    /\ timers = [s \in Sessions |-> {}]
    /\ click = NoClick
    /\ origin = NoOut
    /\ due = NoOut
    /\ recvLog = NoOut
    /\ InitSketch

\* s1 and s2 paint and clear, s3 watches
NextRoom ==
    \/ \E s \in NetSessions, data \in Payloads :
           steps < MaxRoomEvents /\ Paint(s, data, TRUE)
    \/ \E s \in NetSessions : steps < MaxRoomEvents /\ ClickClear(s, TRUE)
    \/ \E s \in NetSessions : ClearTimerFires(s)
    \/ \E s \in NetSessions : HandleStroke(s)
    \/ \E s \in NetSessions : HandleClear(s)
    \/ \E s \in Sessions : NetReceive(s)

SpecRoom == InitRoom /\ [][NextRoom]_vars

\* ------------------------------------------------------------------------
\* One client's sketch (public/sketch.js): the mouse, the draw loop and the
\* microphone button
\* ------------------------------------------------------------------------

\* the session of the client observed
SketchClient == "s1"
\* mouse coordinates: the window is two pixels wide and two pixels high
Coords == {0, 1}

\* emitStroke's payload { x, y, px, py, ... }
StrokeData(x, y, px, py) == [x |-> x, y |-> y, px |-> px, py |-> py]

restOfSketch == <<relayVars, histVars, inbox, onlineCount, steps, clearCooldown,
                  clearBtnDisabled, timers, click, ghostVars>>

\* the mouse moves: p5 updates mouseX and mouseY
MouseMoved(x, y) ==
    /\ mouseX' = x
    /\ mouseY' = y
    /\ UNCHANGED <<mouseIsPressed, drawVars, micVars, uplink, canvas, restOfSketch>>

\* a press that keeps the last emitted position
PressedLastEmitKept(lastEmit, mouse) == lastEmit

\* lines 480-481: lastEmitX = mouseX; lastEmitY = mouseY
PressedLastEmit(lastEmit, mouse) == mouse

\* a mouse button goes down at (x, y): p5 updates mouseX, mouseY and
\* mouseIsPressed and calls mousePressed()
MousePressed(x, y) ==
    /\ ~mouseIsPressed
    /\ mouseIsPressed' = TRUE
    /\ mouseX' = x
    /\ mouseY' = y
    /\ lastEmitX' = PressedLastEmit(lastEmitX, mouseX')
    /\ lastEmitY' = PressedLastEmit(lastEmitY, mouseY')
    /\ pressAt' = Point(x, y)
    /\ pressStrokes' = <<>>
    /\ UNCHANGED <<frameCount, prevMouseX, prevMouseY, frameEmitted, micVars, uplink,
                   canvas, restOfSketch>>

\* the mouse button goes up
MouseReleased ==
    /\ mouseIsPressed
    /\ mouseIsPressed' = FALSE
    /\ UNCHANGED <<mouseX, mouseY, drawVars, micVars, uplink, canvas, restOfSketch>>

\* a throttle that lets every frame emit
EmitsOnEveryFrame(fc) == TRUE

\* line 75: if (frameCount % 2 === 0)
EmitsOnFrame(fc) == fc % 2 = 0

\* one frame: p5 increments frameCount and calls draw(); with the mouse
\* pressed the brush leaves a mark at the mouse position
DrawFrame ==
    /\ frameCount < MaxFrames
    /\ frameCount' = frameCount + 1
    /\ IF mouseIsPressed
       THEN /\ canvas' = [canvas EXCEPT ![SketchClient] = @ \cup {Point(mouseX, mouseY)}]
            /\ IF EmitsOnFrame(frameCount')
               THEN /\ uplink' = ClientSocketEmit(uplink, SketchClient,
                                     ClientMsg("sound:stroke", NoJoin,
                                         StrokeData(mouseX, mouseY, lastEmitX, lastEmitY),
                                         frameCount'))
                    /\ lastEmitX' = mouseX
                    /\ lastEmitY' = mouseY
                    /\ pressStrokes' = Append(pressStrokes,
                                           StrokeData(mouseX, mouseY, lastEmitX, lastEmitY))
                    /\ frameEmitted' = TRUE
               ELSE /\ frameEmitted' = FALSE
                    /\ UNCHANGED <<uplink, lastEmitX, lastEmitY, pressStrokes>>
       ELSE /\ frameEmitted' = FALSE
            /\ UNCHANGED <<canvas, uplink, lastEmitX, lastEmitY, pressStrokes>>
    /\ prevMouseX' = mouseX
    /\ prevMouseY' = mouseY
    /\ UNCHANGED <<mouseVars, pressAt, micVars, restOfSketch>>

restOfMic == <<mouseVars, drawVars, uplink, canvas, restOfSketch>>

\* micBtn's click listener up to its first await (a disabled button
\* dispatches no click)
MicClick ==
    /\ ~micBtnDisabled
    /\ IF ~micEnabled
       THEN /\ micStatus' = "LOADING..."
            /\ micBtnDisabled' = TRUE
            /\ micPc' = "resume"
            /\ UNCHANGED <<micEnabled, micAccess>>
       ELSE /\ micAccess' = "none"
            /\ micEnabled' = FALSE
            /\ micStatus' = "OFF"
            /\ UNCHANGED <<micBtnDisabled, micPc>>
    /\ UNCHANGED restOfMic

\* await getAudioContext().resume() settles: on success mic.start() requests
\* the microphone and the listener awaits its timer, a rejection is caught
MicResumed(ok) ==
    /\ micPc = "resume"
    /\ IF ok
       THEN /\ micAccess' = "pending"
            /\ micPc' = "wait"
            /\ UNCHANGED <<micEnabled, micStatus, micBtnDisabled>>
       ELSE /\ micStatus' = "ERROR"
            /\ micBtnDisabled' = FALSE
            /\ micPc' = "idle"
            /\ UNCHANGED <<micEnabled, micAccess>>
    /\ UNCHANGED restOfMic

\* the microphone request of mic.start() is granted or denied: mic.start()
\* was given no error callback, so the denial is logged and thrown nowhere
MicAccessDecided(granted) ==
    /\ micAccess = "pending"
    /\ micAccess' = IF granted THEN "granted" ELSE "denied"
    /\ UNCHANGED <<micEnabled, micStatus, micBtnDisabled, micPc, restOfMic>>

\* the listener's timer has fired: the analyzers are connected
MicWaited ==
    /\ micPc = "wait"
    /\ micEnabled' = TRUE
    /\ micStatus' = "ON"
    /\ micBtnDisabled' = FALSE
    /\ micPc' = "idle"
    /\ UNCHANGED <<micAccess, restOfMic>>

\* the mouse and the draw loop
NextSketch ==
    \/ \E x, y \in Coords : MouseMoved(x, y)
    \/ \E x, y \in Coords : MousePressed(x, y)
    \/ MouseReleased
    \/ DrawFrame

SpecSketch == Init /\ [][NextSketch]_vars

\* the mouse and the microphone button
NextMic ==
    \/ \E x, y \in Coords : MouseMoved(x, y)
    \/ \E x, y \in Coords : MousePressed(x, y)
    \/ MouseReleased
    \/ MicClick
    \/ \E ok \in BOOLEAN : MicResumed(ok)
    \/ \E granted \in BOOLEAN : MicAccessDecided(granted)
    \/ MicWaited

SpecMic == Init /\ [][NextMic]_vars

\* ------------------------------------------------------------------------
\* Properties
\* ------------------------------------------------------------------------

Received(t, msg) == \E i \in DOMAIN out[t] : out[t][i] = msg
ReceivedNext(t, msg) == \E i \in DOMAIN out'[t] : out'[t][i] = msg
ValidJoin(j) == j.present /\ j.room \notin {"", Missing} /\ j.username \notin {"", Missing}
RelayedKinds == {"sound:stroke", "sound:state", "canvas:clear"}

\* C1: a stroke sent by a member A of exactly one real room R reaches every
\* other member of R, no session outside R, and never A itself.
C1_StrokeReachesTheRoom ==
    \A R \in RoomNames :
        (last.kind = "sound:stroke" /\ FilterRooms(sids, last.from) = {R}) =>
            \A t \in Sessions :
                IF t \in rooms[R] /\ t # last.from
                THEN Received(t, Relayed("sound:stroke", last.data))
                ELSE out[t] = <<>>

\* C2: when a session disconnects, every remaining member of every real room
\* it belonged to (here: the rooms of RealRooms) receives room:count with the
\* room's size after the removal.
C2_DisconnectBroadcastsCount ==
    [][\A s \in Sessions :
          (last'.kind = "disconnect" /\ last'.from = s /\ status[s] = "open"
             /\ status'[s] = "closed") =>
              \A r \in FilterRooms(sids, s) \cap RealRooms : \A t \in rooms'[r] :
                  ReceivedNext(t, RoomCount(Cardinality(rooms'[r])))]_vars

\* C3: a valid join (here: of a real room) adds the sender to the room and
\* emits exactly user:joined to every other member, room:info to the joiner,
\* room:count to every member, both counts being the room's size after the
\* join.
C3_JoinEmitsExactly ==
    (last.kind = "join" /\ ValidJoin(last.join) /\ last.join.room \in RealRooms) =>
        LET r == last.join.room
            n == Cardinality(rooms[r])
        IN  /\ last.from \in rooms[r]
            /\ \A t \in Sessions :
                  out[t] = IF t = last.from THEN <<RoomInfo(r, n), RoomCount(n)>>
                           ELSE IF t \in rooms[r]
                           THEN <<UserJoined(last.join.username, last.from), RoomCount(n)>>
                           ELSE <<>>

\* C4: a join whose room or username is the empty string changes no room's
\* membership and emits nothing.
C4_EmptyJoinIsIgnored ==
    [][(last'.kind = "join" /\ last'.join.present
          /\ (last'.join.room = "" \/ last'.join.username = "")) =>
           (rooms' = rooms /\ sids' = sids /\ out' = NoOut)]_vars

C4_Witness ==
    /\ last.kind = "join" /\ last.join.present
    /\ last.join.room = "R1" /\ last.join.username = ""
    /\ \E r \in RealRooms : rooms[r] # {}

\* C5: every malformed join, a join without any payload included, is handled
\* without an exception: no connection is dropped, nothing is emitted and the
\* registry is unchanged.
C5_MalformedJoinIsHarmless ==
    [][(last'.kind = "join" /\ ~ValidJoin(last'.join)) =>
           (~crashed' /\ status' = status /\ rooms' = rooms /\ sids' = sids
              /\ out' = NoOut)]_vars

\* C6: a room is in a session's room set exactly when the session is in the
\* room's member set.
C6_BidirectionalConsistency ==
    \A s \in Sessions, r \in RoomNames : (r \in sids[s]) <=> (s \in rooms[r])

C6_Witness ==
    /\ last.kind = "disconnect"
    /\ \E t \in Sessions : status[t] = "open" /\ sids[t] \cap RealRooms # {}
    /\ \E t \in Sessions : \E r \in RealRooms : r \in sids[t] /\ Cardinality(rooms[r]) > 1

\* C7: a session receives a relayed event only from a sender with whom it
\* shares a room both entered by their own join, and a session that has sent
\* no join receives nothing from the relay.
C7_OnlyJoinedRoomsReceive ==
    \A t \in Sessions :
        /\ (last.kind \in RelayedKinds /\ out[t] # <<>>) =>
               joinedVia[t] \cap joinedVia[last.from] # {}
        /\ joinedVia[t] = {} => out[t] = <<>>

\* C8: nothing is emitted for, or counted from, the room named after the
\* acting session's own id: a session whose only room is its own relays to
\* nobody, and a join naming the joiner's own id emits no room:info and no
\* room:count.
C8_OwnRoomIsExcluded ==
    /\ (last.kind \in RelayedKinds /\ FilterRooms(sids, last.from) = {}) => out = NoOut
    /\ (last.kind = "join" /\ ValidJoin(last.join) /\ last.join.room = last.from) =>
           out = NoOut

\* C9: every recipient of a stroke or state receives the very payload the
\* relay received, under the same event.
C9_PayloadIsVerbatim ==
    last.kind \in {"sound:stroke", "sound:state"} =>
        \A t \in Sessions : \A i \in DOMAIN out[t] :
            out[t][i] = [ev |-> last.kind, data |-> last.data]

C9_Witness ==
    /\ last.kind = "sound:state" /\ last.data = "p2"
    /\ \E t \in Sessions : t # last.from /\ out[t] # <<>>

\* C10: once every emitted event is delivered, the count shown by a client
\* that joined exactly one real room R is the number of sessions in R.
C10_ShownCountIsAccurate ==
    \A s \in Sessions : \A R \in RealRooms :
        (status[s] = "open" /\ FilterRooms(sids, s) = {R} /\ inbox = NoOut) =>
            onlineCount[s] = Cardinality(rooms[R])


\* C11: the rooms the relay uses for a session's fan-out are exactly the
\* distinct rooms of its valid joins, its own id excluded.
C11_FanoutRoomsAreJoinedRooms ==
    \A s \in Sessions : FilterRooms(sids, s) = joinedVia[s] \ {s}

C11_Witness ==
    /\ joinedVia["s1"] = {"s1", "R1", "R2"}
    /\ joinedVia["s2"] = {"s1", "R2"}
    /\ last.kind = "join"

EventsOfTheSpec == {"user:joined", "room:info", "room:count", "stroke", "state", "clear"}
EventsOfTheCode ==
    {"user:joined", "room:info", "room:count", "sound:stroke", "sound:state", "canvas:clear"}

\* C17 as stated: every emitted event is one of user:joined, room:info,
\* room:count, stroke, state, clear.
C17_EventNamesOfTheSpec ==
    \A t \in Sessions : \A i \in DOMAIN out[t] : out[t][i].ev \in EventsOfTheSpec

\* C17 amended: every emitted event is one of user:joined, room:info,
\* room:count, sound:stroke, sound:state, canvas:clear; a relayed event
\* carries the name under which the relay accepted it; the join events go
\* out only for a join; no other (error) event is emitted.
C17_EventNamesOfTheCode ==
    \A t \in Sessions : \A i \in DOMAIN out[t] :
        /\ out[t][i].ev \in EventsOfTheCode
        /\ last.kind \in RelayedKinds => out[t][i].ev = last.kind
        /\ out[t][i].ev \in {"user:joined", "room:info", "room:count"} => last.kind = "join"

C17_Witness ==
    /\ last.kind = "canvas:clear"
    /\ \E t \in Sessions : out[t] # <<>>

\* C18: a clear sent by a member A of room R reaches every other member of R
\* as a clear event without payload, and neither A nor any session outside R.
C18_ClearReachesTheRoom ==
    \A R \in RealRooms :
        (last.kind = "canvas:clear" /\ FilterRooms(sids, last.from) = {R}) =>
            \A t \in Sessions :
                out[t] = IF t \in rooms[R] /\ t # last.from
                         THEN <<[ev |-> "canvas:clear"]>> ELSE <<>>


JoinThenLeave ==
    last.kind = "disconnect" /\ prevJoin.valid /\ prevJoin.from = last.from

\* C12 as stated (here: for the real rooms): after s joins r and then leaves
\* r by disconnecting, r has as many members as before the join and s is not
\* one of them.
C12_JoinLeaveRestoresCount ==
    (JoinThenLeave /\ prevJoin.room \in RealRooms) =>
        /\ Cardinality(rooms[prevJoin.room]) = prevJoin.size
        /\ last.from \notin rooms[prevJoin.room]

\* C12 amended: the same for a room r that s was not a member of before the
\* join.
C12_FreshJoinLeaveRestoresCount ==
    (JoinThenLeave /\ ~prevJoin.member) =>
        /\ Cardinality(rooms[prevJoin.room]) = prevJoin.size
        /\ last.from \notin rooms[prevJoin.room]

C12_Witness ==
    /\ JoinThenLeave /\ ~prevJoin.member
    /\ prevJoin.room = "R1" /\ prevJoin.size = 2 /\ Cardinality(rooms["R1"]) = 2

RepeatedJoin ==
    /\ last.kind = "join" /\ ValidJoin(last.join)
    /\ last.from \in before[last.join.room]

\* C13: a join of a room the sender is already a member of leaves the
\* room's member set unchanged, and its room:info and room:count carry the
\* room's count of before the join.
C13_JoinIsIdempotent ==
    RepeatedJoin =>
        LET r == last.join.room
            n == Cardinality(before[r])
        IN  /\ rooms[r] = before[r]
            /\ Received(last.from, RoomInfo(r, n))
            /\ \A t \in Sessions : \A i \in DOMAIN out[t] :
                  /\ out[t][i].ev = "room:info" => out[t][i].userCount = n
                  /\ out[t][i].ev = "room:count" => out[t][i].count = n
            /\ \A t \in rooms[r] : Received(t, RoomCount(n))

C13_Witness ==
    /\ RepeatedJoin
    /\ last.join.room = "R2" /\ Cardinality(rooms["R2"]) = 2

\* C14: when the only member of a room R disconnects, R has no member left,
\* and while R has no member no handler other than a join of R gives it one,
\* emits to it, counts it or names it in a room:info.
C14_EmptyRoomStaysSilent ==
    \A R \in RealRooms :
        /\ (last.kind = "disconnect" /\ before[R] = {last.from}) =>
               (rooms[R] = {} /\ R \notin addressed)
        /\ (before[R] = {} /\ ~(last.kind = "join" /\ ValidJoin(last.join)
                                  /\ last.join.room = R)) =>
               /\ rooms[R] = {}
               /\ R \notin addressed
               /\ \A t \in Sessions : \A i \in DOMAIN out[t] :
                      out[t][i].ev = "room:info" => out[t][i].room # R

C14_Witness ==
    /\ last.kind = "disconnect" /\ before["R1"] = {last.from}
    /\ \E t \in Sessions : status[t] = "open" /\ "R2" \in sids[t]

\* ------------------------------------------------------------------------
\* C19: the Clear button's cooldown
\* ------------------------------------------------------------------------

ClearsEmitted(s) == Len(SelectSeq(uplink[s], LAMBDA m : m.ev = "canvas:clear"))
ClickedBy(s) == click'.kind = "click" /\ click'.s = s

\* C19: while the cooldown timer of a client's Clear button is pending no
\* click of that client emits anything or changes its canvas; a click that
\* is confirmed outside the cooldown emits one canvas:clear and arms the
\* timer; a click whose confirmation is cancelled emits nothing and leaves
\* cooldown, button and timer alone; when the timer fires the button is
\* enabled again and the cooldown is over.
C19_ClearCooldown ==
    [][\A s \in Sessions :
          /\ (ClickedBy(s) /\ timers[s] # {}) =>
                 /\ uplink'[s] = uplink[s]
                 /\ canvas'[s] = canvas[s]
          /\ (ClickedBy(s) /\ timers[s] = {} /\ click'.confirmed) =>
                 /\ uplink'[s] = Append(uplink[s], ClientMsg("canvas:clear", NoJoin, NoData, steps'))
                 /\ timers'[s] # {}
          /\ (ClickedBy(s) /\ ~click'.confirmed) =>
                 /\ uplink'[s] = uplink[s]
                 /\ timers'[s] = timers[s]
                 /\ clearCooldown'[s] = clearCooldown[s]
                 /\ clearBtnDisabled'[s] = clearBtnDisabled[s]
          /\ (click'.kind = "timeout" /\ click'.s = s /\ timers[s] # {}) =>
                 /\ ~clearBtnDisabled'[s]
                 /\ ~clearCooldown'[s]
                 /\ timers'[s] = {}]_vars

\* a confirmed click during the cooldown, after the client painted on the
\* cleared canvas: one canvas:clear was emitted and the paint is still there
C19_Witness ==
    /\ click.kind = "click"
    /\ click.confirmed
    /\ timers[click.s] # {}
    /\ clearBtnDisabled[click.s]
    /\ canvas[click.s] # {}
    /\ ClearsEmitted(click.s) = 1

\* ------------------------------------------------------------------------
\* C15, C20: delivery to the members of the sender's rooms
\* ------------------------------------------------------------------------

\* the fan-out copies that have reached t or are in flight to t
Arrived(t) == recvLog[t] \o SelectSeq(origin[t], IsFanout)
FromSender(seq, s) == SelectSeq(seq, LAMBDA tag : tag.from = s)
InSendOrder(seq) == \A i, j \in DOMAIN seq : i < j => seq[i].n <= seq[j].n

\* C15: for a sender s and a connected recipient t, the stroke, state and
\* clear copies of s that have arrived at t or are in flight to t are, in
\* this order, the copies owed to t (one per message and room of s that t
\* was a member of when the relay handled it), and they are in the order
\* in which s sent the messages.
C15_OrderedCompleteFanout ==
    \A s, t \in Sessions :
        (s # t /\ status[t] = "open") =>
            /\ FromSender(Arrived(t), s) = FromSender(due[t], s)
            /\ InSendOrder(FromSender(Arrived(t), s))

\* C20: once nothing is in flight to a connected session t, t has received
\* every stroke that a member of one of its rooms sent and the relay handled
\* while t was a member of that room.
C20_StrokesAreReceived ==
    \A t \in Sessions :
        (status[t] = "open" /\ inbox[t] = <<>>) =>
            \A i \in DOMAIN due[t] :
                due[t][i].ev = "sound:stroke" =>
                    \E k \in DOMAIN recvLog[t] : recvLog[t][k] = due[t][i]

\* ------------------------------------------------------------------------
\* C21 .. C25: the relay's handlers
\* ------------------------------------------------------------------------

Closed(s) == status[s] = "closed"
IsRoomCount(msg) == msg.ev = "room:count"

\* C21: a session whose disconnect has been handled is a member of no room,
\* receives nothing of what the relay emits, and every room:count the relay
\* emits carries the number of the room's members, none of which is closed.
C21_ClosedSessionIsGone ==
    \A s \in Sessions :
        Closed(s) =>
            /\ \A r \in RoomNames : s \notin rooms[r]
            /\ out[s] = <<>>
            /\ \A t \in Sessions : \A i \in DOMAIN out[t] :
                   IsRoomCount(out[t][i]) =>
                       \E r \in addressed :
                           out[t][i].count =
                               Cardinality({u \in rooms[r] : ~Closed(u)})

\* a join is answered with room:count 2 after the third session, a member
\* of a real room, has disconnected
C21_Witness ==
    /\ ~crashed
    /\ \E s \in Sessions : Closed(s)
    /\ last.kind = "join"
    /\ last.join.room \in RealRooms
    /\ \E t \in Sessions : Received(t, RoomCount(2))

\* C22: when B joins a real room after A, A receives user:joined for B, and
\* B receives no user:joined and no stroke, state or clear from its join:
\* nothing handled before the join is replayed to the joiner.
C22_NoReplayToTheJoiner ==
    [][(last'.kind = "join" /\ ValidJoin(last'.join) /\ last'.join.room \in RealRooms) =>
           LET B == last'.from
               r == last'.join.room
           IN  /\ \A A \in rooms[r] \ {B} :
                      ReceivedNext(A, UserJoined(last'.join.username, B))
               /\ \A i \in DOMAIN out'[B] :
                      out'[B][i].ev \notin RelayedKinds \cup {"user:joined"}]_vars

\* the real rooms two sessions share
CommonRealRooms(s, t) == {r \in RealRooms : s \in rooms[r] /\ t \in rooms[r]}

\* C23: a stroke, state or clear of a session that has joined two or more
\* rooms, all of them real rooms, reaches every other member of every one of
\* these rooms and no session that shares none of them.
C23_EveryJoinedRoomIsServed ==
    (/\ last.kind \in RelayedKinds
     /\ FilterRooms(sids, last.from) \subseteq RealRooms
     /\ Cardinality(FilterRooms(sids, last.from)) >= 2) =>
        \A t \in Sessions \ {last.from} :
            (out[t] # <<>>) <=> (CommonRealRooms(last.from, t) # {})

\* C24: a stroke, state or clear reaches a recipient exactly once (here: for
\* a sender and a recipient whose joins named real rooms only), whatever the
\* number of real rooms both are members of.
C24_DeliveredExactlyOnce ==
    (last.kind \in RelayedKinds /\ joinedVia[last.from] \subseteq RealRooms) =>
        \A t \in Sessions \ {last.from} :
            (joinedVia[t] \subseteq RealRooms /\ CommonRealRooms(last.from, t) # {}) =>
                Len(out[t]) = 1

\* C25: the stroke, state and clear handlers leave the registry unchanged,
\* and emit nothing when the sender is in no room but the one of its own id.
C25_RelayHandlersKeepTheRegistry ==
    [][last'.kind \in RelayedKinds =>
           /\ rooms' = rooms
           /\ sids' = sids
           /\ FilterRooms(sids, last'.from) = {} => out' = NoOut]_vars

\* a session that has joined nothing sends a clear while another session is
\* a member of a real room
C25_Witness ==
    /\ last.kind = "canvas:clear"
    /\ FilterRooms(sids, last.from) = {}
    /\ \E r \in RealRooms : rooms[r] # {}
    /\ out = NoOut

\* ------------------------------------------------------------------------
\* C26, C27: concurrent senders in one room
\* ------------------------------------------------------------------------

\* the event the relay emits for a client's stroke, state or clear
FanoutOf(m) ==
    IF m.ev = "canvas:clear" THEN [ev |-> "canvas:clear"] ELSE Relayed(m.ev, m.data)

\* C26: the relay and the transport order the strokes and clears of
\* different senders by handling only: handling a message of s puts its copy
\* behind everything already in flight to every other member of the room, in
\* whatever order the messages were sent, and a client applies the events in
\* flight to it oldest first.
C26_HandlingOrderIsDeliveryOrder ==
    [][\A s \in Sessions :
          /\ (uplink[s] # <<>> /\ uplink'[s] = Tail(uplink[s])) =>
                 \A t \in Sessions :
                     inbox'[t] = IF t \in rooms[RoomCode] \ {s}
                                 THEN Append(inbox[t], FanoutOf(Head(uplink[s])))
                                 ELSE inbox[t]
          /\ (inbox[s] # <<>> /\ inbox'[s] = Tail(inbox[s])) =>
                 canvas'[s] = CanvasAfter(canvas[s], Head(inbox[s]))]_vars

\* s3 has received strokes of s1 and s2 in both orders: a pair in the order
\* in which they were sent and a pair in the opposite order
C26_Witness ==
    LET log == recvLog["s3"]
        Pair(i, j) == /\ i < j
                      /\ log[i].from # log[j].from
                      /\ log[i].ev = "sound:stroke"
                      /\ log[j].ev = "sound:stroke"
    IN  /\ \E i, j \in DOMAIN log : Pair(i, j) /\ log[i].n < log[j].n
        /\ \E i, j \in DOMAIN log : Pair(i, j) /\ log[i].n > log[j].n

Quiescent == uplink = NoOut /\ inbox = NoOut

\* C27: once every message sent has been handled and delivered, the
\* canvases of the sessions of the room hold the same set of strokes.
C27_CanvasesConverge ==
    Quiescent => \A s, t \in Sessions : canvas[s] = canvas[t]

\* ------------------------------------------------------------------------
\* C28, C29: the strokes the draw loop emits
\* ------------------------------------------------------------------------

Emitted == uplink[SketchClient]
IsFrame == frameCount' = frameCount + 1
FrameEmits ==
    /\ Len(Emitted') = Len(Emitted) + 1
    /\ Emitted'[Len(Emitted')].ev = "sound:stroke"
    /\ SubSeq(Emitted', 1, Len(Emitted)) = Emitted

C29_StrokesFormAPolyline ==
    \A i \in DOMAIN pressStrokes :
        IF i = 1
        THEN Point(pressStrokes[1].px, pressStrokes[1].py) = pressAt
        ELSE Point(pressStrokes[i].px, pressStrokes[i].py) =
                 Point(pressStrokes[i - 1].x, pressStrokes[i - 1].y)

\* a second press, away from where the first press ended, with two strokes
\* emitted while the mouse moved
C29_Witness ==
    /\ Len(pressStrokes) = 2
    /\ Len(Emitted) = 2
    /\ pressAt # Point(0, 0)
    /\ Point(pressStrokes[1].x, pressStrokes[1].y) # pressAt
    /\ Point(pressStrokes[2].x, pressStrokes[2].y) # Point(pressStrokes[1].x, pressStrokes[1].y)

\* ------------------------------------------------------------------------
\* C30: the microphone button
\* ------------------------------------------------------------------------

MicStarting == micPc # "idle"

\* C30: micEnabled is true exactly when the status shows ON; while the
\* status is LOADING... the button is disabled, and no click listener runs
\* while another one awaits; once a start has failed (getAudioContext().
\* resume() rejected, or the microphone request denied) and the listener
\* has finished, micEnabled is false, the status is ERROR and the button is
\* enabled; a click while micEnabled ends with micEnabled false and status
\* OFF.
C30_MicToggle ==
    [][/\ micEnabled' <=> micStatus' = "ON"
       /\ micStatus' = "LOADING..." => micBtnDisabled'
       /\ MicStarting' => micBtnDisabled'
       /\ micStatus' = "ERROR" => (~micEnabled' /\ ~micBtnDisabled')
       /\ (micAccess' = "denied" /\ ~MicStarting') =>
              (~micEnabled' /\ micStatus' = "ERROR" /\ ~micBtnDisabled')
       /\ (micEnabled /\ (micEnabled' # micEnabled \/ micStatus' # micStatus)) =>
              (~micEnabled' /\ micStatus' = "OFF")]_vars
====
